---------------------------- MODULE Spec2Model ----------------------------
(***************************************************************************)
(* Model of the REUNITE lost-and-found backend: the in-memory store        *)
(* MemStorage (src/unnamed/part_000) and the item routes of                *)
(* src/routes.ts that call it.                                             *)
(*                                                                         *)
(* JavaScript values are tagged records, so that a field may hold a value  *)
(* of any type (the store never checks the shape of what it is given).     *)
(* Strings are sequences of one-character strings, so that toLowerCase()   *)
(* and includes() are computed, not assumed.  A JavaScript object is a     *)
(* function from its own keys to values; a Map is the sequence of its      *)
(* entries in insertion order.                                             *)
(*                                                                         *)
(* Every store method is one action: the bodies of createUser, createItem, *)
(* createMessage and deleteItem contain no await, so the event loop runs   *)
(* each of them to completion whatever calls are pending.  updateItem and  *)
(* incrementItemViews are modelled twice: as one action, which is the      *)
(* store driven by calls made one after the other, and split at their      *)
(* await, with the calls suspended there resuming in the order they were   *)
(* started.  The route handlers are run to completion.                     *)
(*                                                                         *)
(* The specifications share the state and the actions:                     *)
(*   Spec       the item store under its write operations;                 *)
(*   SpecIds    creations of users, items and messages, and deletions;     *)
(*   SpecAwait  updateItem and incrementItemViews calls suspended at       *)
(*              their await while others run;                              *)
(*   SpecDelete the same with deletions;                                   *)
(*   SpecCreate createItem on every kind of input, and getItem;            *)
(*   SpecShare  the item store with a caller that keeps an item it got;    *)
(*   SpecHttp   the item store behind PATCH /api/items/:id;                *)
(*   SpecQuery  the item store with getItems, searchItems and              *)
(*              GET /api/items;                                            *)
(*   SpecMsg    the message store;                                         *)
(*   SpecUsers  POST /api/users;                                           *)
(*   SpecRoutes the routes that name one item or one message;              *)
(*   SpecImages one item behind PATCH /api/items/:id and its uploads.      *)
(* History variables record what no field of the store keeps: the ids the  *)
(* create calls returned, the number of incrementItemViews calls made on   *)
(* each item that was never updated, and the suspended calls that          *)
(* completed on each item.                                                 *)
(***************************************************************************)
EXTENDS Integers, Sequences, FiniteSets, TLC

(***************************************************************************)
(* Bounds of the model.                                                    *)
(***************************************************************************)
MaxUsers == 2       \* createUser calls in a run
MaxItems == 2       \* createItem calls in a run
MaxMessages == 2    \* createMessage calls in a run
MaxTime == 1        \* new Date() yields a time in 0..MaxTime
MaxViews == 2       \* incrementItemViews stops being called on an item at this count
DayMs == 2          \* length of a calendar day in clock units
MaxImages == 2      \* the update route stops receiving files for an item with this many images
MaxPending == 2     \* calls suspended at their await at one time

(***************************************************************************)
(* JavaScript values.                                                      *)
(***************************************************************************)
Undefined == [t |-> "undefined"]
Null == [t |-> "null"]
Bool(b) == [t |-> "boolean", b |-> b]
NaN == [t |-> "NaN"]
Num(n) == [t |-> "number", n |-> n]
Str(s) == [t |-> "string", s |-> s]
DateV(ms) == [t |-> "Date", ms |-> ms]
Arr(a) == [t |-> "array", a |-> a]
Obj(o) == [t |-> "object", o |-> o]

IsNum(v) == v.t = "number"
IsStr(v) == v.t = "string"
IsDate(v) == v.t = "Date"

\* ToBoolean: undefined, null, NaN, 0 and "" are falsy, everything else truthy.
Truthy(v) ==
    CASE v.t = "undefined" -> FALSE
      [] v.t = "null" -> FALSE
      [] v.t = "NaN" -> FALSE
      [] v.t = "number" -> v.n # 0
      [] v.t = "string" -> v.s # <<>>
      [] v.t = "boolean" -> v.b
      [] OTHER -> TRUE

\* a || b
OrElse(a, b) == IF Truthy(a) THEN a ELSE b

\* o.k : undefined when o has no own key k.
Get(o, k) == IF k \in DOMAIN o THEN o[k] ELSE Undefined

\* { ...a, ...b } : every own key of b overwrites a's, also when b's value is undefined.
Spread(a, b) == [k \in DOMAIN a \cup DOMAIN b |-> IF k \in DOMAIN b THEN b[k] ELSE a[k]]

\* The object with no key.
EmptyObj == [k \in {} |-> Undefined]

\* v += 1 : numeric addition on a number, concatenation on a string.
PlusOne(v) ==
    CASE v.t = "number" -> Num(v.n + 1)
      [] v.t = "string" -> Str(v.s \o <<"1">>)
      [] v.t = "null" -> Num(1)
      [] OTHER -> NaN

(***************************************************************************)
(* Strings.                                                                *)
(***************************************************************************)
UpperChars == <<"A", "B", "C", "D", "E", "F", "G", "H", "I", "J", "K", "L", "M",
                "N", "O", "P", "Q", "R", "S", "T", "U", "V", "W", "X", "Y", "Z">>
LowerChars == <<"a", "b", "c", "d", "e", "f", "g", "h", "i", "j", "k", "l", "m",
                "n", "o", "p", "q", "r", "s", "t", "u", "v", "w", "x", "y", "z">>

LowerChar(c) ==
    IF \E i \in 1..Len(UpperChars) : UpperChars[i] = c
    THEN LowerChars[CHOOSE i \in 1..Len(UpperChars) : UpperChars[i] = c]
    ELSE c

\* String.prototype.toLowerCase on the characters of s.
ToLowerCase(s) == [i \in 1..Len(s) |-> LowerChar(s[i])]

\* String.prototype.includes: needle occurs in hay as a contiguous substring.
Includes(hay, needle) ==
    \E i \in 0..(Len(hay) - Len(needle)) : SubSeq(hay, i + 1, i + Len(needle)) = needle

(***************************************************************************)
(* Map: the entries in insertion order.                                    *)
(***************************************************************************)
MapKeys(m) == {m[i].key : i \in 1..Len(m)}
MapHas(m, k) == k \in MapKeys(m)
MapIndex(m, k) == CHOOSE i \in 1..Len(m) : m[i].key = k
\* Map.prototype.get
MapGet(m, k) == IF MapHas(m, k) THEN m[MapIndex(m, k)].val ELSE Undefined
\* Map.prototype.set: an existing key keeps its position, a new key goes last.
MapSet(m, k, v) ==
    IF MapHas(m, k)
    THEN [m EXCEPT ![MapIndex(m, k)] = [key |-> k, val |-> v]]
    ELSE Append(m, [key |-> k, val |-> v])
\* Map.prototype.delete: the map without the entry of k.
MapDelete(m, k) == SelectSeq(m, LAMBDA e : e.key # k)
\* Array.from(map.values())
MapValues(m) == [i \in 1..Len(m) |-> m[i].val]

Min(a, b) == IF a < b THEN a ELSE b
Max(a, b) == IF a > b THEN a ELSE b

VARIABLES
    users,             \* this.users
    items,             \* this.items
    messages,          \* this.messages
    userIdCounter,     \* this.userIdCounter
    itemIdCounter,     \* this.itemIdCounter
    messageIdCounter,  \* this.messageIdCounter
    call,              \* the last call made: its name, arguments and result
    issued,            \* history: the ids the create calls returned, in call order
    fresh,             \* history: per item never updated, the incrementItemViews calls made on it
    pending,           \* the calls suspended at `await this.getItem(id)`, in the order they resume
    held,              \* the reference to an item object that a caller of the store kept
    loose,             \* the item objects still referenced that this.items no longer holds
    done               \* history: per item, the suspended calls that found it and completed

vars == <<users, items, messages, userIdCounter, itemIdCounter, messageIdCounter,
          call, issued, fresh, pending, held, loose, done>>

\* Results of a call: a returned value or a thrown error.
Ok(v) == [t |-> "ok", v |-> v]
Throw(e) == [t |-> "throw", e |-> e]

NoCall == [op |-> "none"]

\* constructor()
Init ==
    /\ users = <<>>
    /\ items = <<>>
    /\ messages = <<>>
    /\ userIdCounter = 1
    /\ itemIdCounter = 1
    /\ messageIdCounter = 1
    /\ call = NoCall
    /\ issued = [user |-> <<>>, item |-> <<>>, message |-> <<>>]
    /\ fresh = [k \in {} |-> 0]
    /\ pending = <<>>
    /\ held = [at |-> "none"]
    /\ loose = [n \in {} |-> 0]
    /\ done = [k \in {} |-> 0]


(***************************************************************************)
(* Inputs of the calls.                                                    *)
(***************************************************************************)
Times == 0..MaxTime

Lost == <<"l", "o", "s", "t">>
Found == <<"f", "o", "u", "n", "d">>

\* InsertItem values: the second one carries images and locationDetails, the first omits them.
ItemA == [userId |-> Num(1), name |-> Str(<<"B", "a", "g">>),
          description |-> Str(<<"r", "e", "d">>), location |-> Str(<<"D", "e", "l">>),
          status |-> Str(Lost), type |-> Str(<<"b">>), date |-> DateV(0)]
ItemB == [userId |-> Num(2), name |-> Str(<<"K", "e", "y">>),
          description |-> Str(<<"B", "A", "G">>), location |-> Str(<<"g", "o", "a">>),
          locationDetails |-> Str(<<"g">>), images |-> Arr(<<Str(<<"u">>)>>),
          status |-> Str(Found), type |-> Str(<<"k">>), date |-> DateV(DayMs)]
InsertItems == {ItemA, ItemB}
\* InsertItem values that carry views, and an empty locationDetails.
ItemViewed == [userId |-> Num(1), name |-> Str(<<"P", "e", "n">>),
               description |-> Str(<<>>), location |-> Str(<<"D", "e", "l">>),
               images |-> Arr(<<>>), views |-> Num(7),
               status |-> Str(Found), type |-> Str(<<"p">>), date |-> DateV(0)]
ItemBlank == [userId |-> Num(2), name |-> Str(<<"C", "a", "p">>),
              description |-> Str(<<"c">>), location |-> Str(<<"g", "o", "a">>),
              locationDetails |-> Str(<<>>),
              status |-> Str(Lost), type |-> Str(<<"c">>), date |-> DateV(0)]
CreateInputs == InsertItems \cup {ItemViewed, ItemBlank}

\* InsertUser and InsertMessage values.
UserA == [username |-> Str(<<"a">>), password |-> Str(<<"p">>),
          email |-> Str(<<"a", "@">>), name |-> Str(<<"A">>)]
InsertUsers == {UserA}
MessageA == [itemId |-> Num(1), fromUserId |-> Num(1), toUserId |-> Num(2),
             content |-> Str(<<"h", "i">>)]
InsertMessages == {MessageA}
\* An input that carries a read flag, between two other users.
MessageB == [itemId |-> Num(1), fromUserId |-> Num(2), toUserId |-> Num(3),
             content |-> Str(<<>>), read |-> Bool(TRUE)]
MessageInputs == {MessageA, MessageB}
\* Keys and user ids a caller may name.
MessageKeys == 1..(MaxMessages + 1)
UserIds == {Num(u) : u \in 1..(MaxUsers + 2)}

\* Keys a caller may name: every key the store can have assigned, and one it never assigns.
ItemKeys == 1..(MaxItems + 1)

\* Partial<Item> values given to updateItem.
PartialLocation == [location |-> Str(<<"X">>), locationDetails |-> Undefined]
PartialSystem == [id |-> Num(2), createdAt |-> DateV(1), views |-> Num(0)]
Partials == {PartialLocation, PartialSystem}

\* The function f with k dropped from its domain.
Without(f, k) == [x \in DOMAIN f \ {k} |-> f[x]]
\* The function f with f[k] = v.
With(f, k, v) == [x \in DOMAIN f \cup {k} |-> IF x = k THEN v ELSE f[x]]

(***************************************************************************)
(* References to item objects.  getItem and createItem hand out the object *)
(* the map holds, not a copy; incrementItemViews changes that object in    *)
(* place and updateItem puts a new object in its place.  A reference names *)
(* the object the map holds under a key, or an object the map no longer    *)
(* holds.  Objects that nothing references are dropped from the state.     *)
(***************************************************************************)
NoRef == [at |-> "none"]
InMap(k) == [at |-> "map", k |-> k]
Loose(n) == [at |-> "loose", n |-> n]

\* The object a reference leads to.
Deref(r) ==
    CASE r.at = "map" -> MapGet(items, r.k)
      [] r.at = "loose" -> loose[r.n]
      [] OTHER -> Undefined

\* The references of the state: of the suspended calls and of the caller.
Refs == [pending |-> pending, held |-> held, loose |-> loose]

Referenced(rs, r) == rs.held = r \/ \E i \in DOMAIN rs.pending : rs.pending[i].item = r

\* Every reference equal to from now leads to to.
Repoint(rs, from, to) ==
    [pending |-> [i \in DOMAIN rs.pending |->
                     [rs.pending[i] EXCEPT !.item = IF @ = from THEN to ELSE @]],
     held |-> IF rs.held = from THEN to ELSE rs.held,
     loose |-> rs.loose]

\* The first name no loose object has.
FreeSlot(rs) ==
    CHOOSE n \in 1..(Len(rs.pending) + 2) :
        /\ n \notin DOMAIN rs.loose
        /\ \A x \in 1..(n - 1) : x \in DOMAIN rs.loose

\* The references after the object under key k left the map m: replaced by
\* this.items.set(k, other) or removed by this.items.delete(k).
Detach(rs, m, k) ==
    IF MapHas(m, k) /\ Referenced(rs, InMap(k))
    THEN LET n == FreeSlot(rs)
         IN Repoint([rs EXCEPT !.loose = With(@, n, MapGet(m, k))], InMap(k), Loose(n))
    ELSE rs

\* The references after this.items.set(k, object) put the loose object n in the map.
Attach(rs, n, k) == Repoint([rs EXCEPT !.loose = Without(@, n)], Loose(n), InMap(k))

\* The loose objects that are still referenced.
Collect(rs) ==
    [rs EXCEPT !.loose = [n \in {x \in DOMAIN rs.loose : Referenced(rs, Loose(x))}
                             |-> rs.loose[n]]]

SetRefs(rs) ==
    /\ pending' = rs.pending
    /\ held' = rs.held
    /\ loose' = rs.loose

\* The object under key k is replaced or removed by the step.
ObjectLeaves(k) == SetRefs(Detach(Refs, items, k))

(***************************************************************************)
(* MemStorage: the write operations.                                       *)
(***************************************************************************)
\* createUser(insertUser), with new Date() = t
CreateUser(insertUser, t) ==
    /\ userIdCounter <= MaxUsers
    /\ LET id == userIdCounter
           user == Spread(insertUser, [id |-> Num(id), createdAt |-> DateV(t)])
       IN /\ userIdCounter' = userIdCounter + 1
          /\ users' = MapSet(users, id, user)
          /\ call' = [op |-> "createUser", ret |-> Ok(user)]
          /\ issued' = [issued EXCEPT !.user = Append(@, user["id"])]
    /\ UNCHANGED <<items, messages, itemIdCounter, messageIdCounter, fresh,
                   pending, held, loose, done>>

\* createItem with the id taken from the size of the map instead of the counter.
CreateItemIdFromSize(insertItem, t) ==
    /\ itemIdCounter <= MaxItems
    /\ LET id == Len(items) + 1
           images == OrElse(Get(insertItem, "images"), Null)
           locationDetails == OrElse(Get(insertItem, "locationDetails"), Null)
           item == Spread(insertItem,
                          [id |-> Num(id), createdAt |-> DateV(t), views |-> Num(0),
                           images |-> images, locationDetails |-> locationDetails])
       IN /\ itemIdCounter' = itemIdCounter + 1
          /\ items' = MapSet(items, id, item)
          /\ call' = [op |-> "createItem", data |-> insertItem, ret |-> Ok(item)]
          /\ issued' = [issued EXCEPT !.item = Append(@, item["id"])]
          /\ fresh' = With(fresh, id, 0)
    /\ UNCHANGED <<users, messages, userIdCounter, messageIdCounter,
                   pending, held, loose, done>>

\* createItem spreading insertItem over the fields the store sets, instead of under them.
CreateItemDataWins(insertItem, t) ==
    /\ itemIdCounter <= MaxItems
    /\ LET id == itemIdCounter
           images == OrElse(Get(insertItem, "images"), Null)
           locationDetails == OrElse(Get(insertItem, "locationDetails"), Null)
           item == Spread([id |-> Num(id), createdAt |-> DateV(t), views |-> Num(0),
                           images |-> images, locationDetails |-> locationDetails],
                          insertItem)
       IN /\ itemIdCounter' = itemIdCounter + 1
          /\ items' = MapSet(items, id, item)
          /\ call' = [op |-> "createItem", data |-> insertItem, ret |-> Ok(item)]
          /\ issued' = [issued EXCEPT !.item = Append(@, item["id"])]
          /\ fresh' = With(fresh, id, 0)
    /\ UNCHANGED <<users, messages, userIdCounter, messageIdCounter,
                   pending, held, loose, done>>

\* createItem(insertItem), with new Date() = t
CreateItem(insertItem, t) ==
    /\ itemIdCounter <= MaxItems
    /\ LET id == itemIdCounter
           images == OrElse(Get(insertItem, "images"), Null)
           locationDetails == OrElse(Get(insertItem, "locationDetails"), Null)
           item == Spread(insertItem,
                          [id |-> Num(id), createdAt |-> DateV(t), views |-> Num(0),
                           images |-> images, locationDetails |-> locationDetails])
       IN /\ itemIdCounter' = itemIdCounter + 1
          /\ items' = MapSet(items, id, item)
          /\ call' = [op |-> "createItem", data |-> insertItem, ret |-> Ok(item)]
          /\ issued' = [issued EXCEPT !.item = Append(@, item["id"])]
          /\ fresh' = With(fresh, id, 0)
    /\ UNCHANGED <<users, messages, userIdCounter, messageIdCounter,
                   pending, held, loose, done>>

\* createMessage spreading insertMessage over id, createdAt and read, instead of under them.
CreateMessageInputWins(insertMessage, t) ==
    /\ messageIdCounter <= MaxMessages
    /\ LET id == messageIdCounter
           message == Spread([id |-> Num(id), createdAt |-> DateV(t), read |-> Bool(FALSE)],
                             insertMessage)
       IN /\ messageIdCounter' = messageIdCounter + 1
          /\ messages' = MapSet(messages, id, message)
          /\ call' = [op |-> "createMessage", data |-> insertMessage, ret |-> Ok(message)]
          /\ issued' = [issued EXCEPT !.message = Append(@, message["id"])]
    /\ UNCHANGED <<users, items, userIdCounter, itemIdCounter, fresh,
                   pending, held, loose, done>>

\* createMessage(insertMessage), with new Date() = t
CreateMessage(insertMessage, t) ==
    /\ messageIdCounter <= MaxMessages
    /\ LET id == messageIdCounter
           message == Spread(insertMessage,
                             [id |-> Num(id), createdAt |-> DateV(t), read |-> [t |-> "boolean", b |-> FALSE]])
       IN /\ messageIdCounter' = messageIdCounter + 1
          /\ messages' = MapSet(messages, id, message)
          /\ call' = [op |-> "createMessage", data |-> insertMessage, ret |-> Ok(message)]
          /\ issued' = [issued EXCEPT !.message = Append(@, message["id"])]
    /\ UNCHANGED <<users, items, userIdCounter, itemIdCounter, fresh,
                   pending, held, loose, done>>

\* getItem(id)
GetItem(id) ==
    /\ call' = [op |-> "getItem", id |-> id, ret |-> Ok(MapGet(items, id))]
    /\ UNCHANGED <<users, items, messages, userIdCounter, itemIdCounter,
                   messageIdCounter, issued, fresh, pending, held, loose, done>>

\* updateItem storing updateData in place of the item instead of merging it.
UpdateItemReplaces(id, updateData) ==
    /\ IF ~MapHas(items, id)
       THEN /\ call' = [op |-> "updateItem", id |-> id, data |-> updateData,
                        ret |-> Ok(Undefined)]
            /\ UNCHANGED <<items, fresh>>
       ELSE LET updatedItem == updateData
            IN /\ items' = MapSet(items, id, updatedItem)
               /\ call' = [op |-> "updateItem", id |-> id, data |-> updateData,
                           ret |-> Ok(updatedItem)]
               /\ fresh' = Without(fresh, id)
    /\ ObjectLeaves(id)
    /\ UNCHANGED <<users, messages, userIdCounter, itemIdCounter, messageIdCounter, issued,
                   done>>

\* updateItem(id, updateData)
UpdateItem(id, updateData) ==
    /\ IF ~MapHas(items, id)
       THEN /\ call' = [op |-> "updateItem", id |-> id, data |-> updateData,
                        ret |-> Ok(Undefined)]
            /\ UNCHANGED <<items, fresh>>
       ELSE LET item == MapGet(items, id)
                updatedItem == Spread(item, updateData)
            IN /\ items' = MapSet(items, id, updatedItem)
               /\ call' = [op |-> "updateItem", id |-> id, data |-> updateData,
                           ret |-> Ok(updatedItem)]
               /\ fresh' = Without(fresh, id)
    /\ ObjectLeaves(id)
    /\ UNCHANGED <<users, messages, userIdCounter, itemIdCounter, messageIdCounter, issued,
                   done>>

\* deleteItem emptying the map instead of removing one entry.
DeleteItemClears(id) ==
    /\ items' = <<>>
    /\ call' = [op |-> "deleteItem", id |-> id,
                ret |-> Ok([t |-> "boolean", b |-> MapHas(items, id)])]
    /\ fresh' = Without(fresh, id)
    /\ ObjectLeaves(id)
    /\ UNCHANGED <<users, messages, userIdCounter, itemIdCounter, messageIdCounter, issued,
                   done>>

\* deleteItem(id)
DeleteItem(id) ==
    /\ items' = MapDelete(items, id)
    /\ call' = [op |-> "deleteItem", id |-> id,
                ret |-> Ok([t |-> "boolean", b |-> MapHas(items, id)])]
    /\ fresh' = Without(fresh, id)
    /\ ObjectLeaves(id)
    /\ UNCHANGED <<users, messages, userIdCounter, itemIdCounter, messageIdCounter, issued,
                   done>>

\* The model stops calling incrementItemViews on an item whose counter reached MaxViews.
ViewsBelowBound(item) ==
    LET v == Get(item, "views")
    IN CASE v.t = "number" -> v.n < MaxViews
         [] v.t = "string" -> Len(v.s) < MaxViews
         [] OTHER -> TRUE

\* incrementItemViews writing 1 instead of adding 1.
IncrementItemViewsSetsOne(id) ==
    /\ IF ~MapHas(items, id)
       THEN UNCHANGED <<items, fresh>>
       ELSE LET item == MapGet(items, id)
                bumped == With(item, "views", Num(1))
            IN /\ ViewsBelowBound(item)
               /\ items' = MapSet(items, id, bumped)
               /\ fresh' = IF id \in DOMAIN fresh THEN [fresh EXCEPT ![id] = @ + 1] ELSE fresh
    /\ call' = [op |-> "incrementItemViews", id |-> id, ret |-> Ok(Undefined)]
    /\ UNCHANGED <<users, messages, userIdCounter, itemIdCounter, messageIdCounter, issued,
                   pending, held, loose, done>>

\* incrementItemViews(id)
IncrementItemViews(id) ==
    /\ IF ~MapHas(items, id)
       THEN UNCHANGED <<items, fresh>>
       ELSE LET item == MapGet(items, id)
                bumped == With(item, "views", PlusOne(Get(item, "views")))
            IN /\ ViewsBelowBound(item)
               /\ items' = MapSet(items, id, bumped)
               /\ fresh' = IF id \in DOMAIN fresh THEN [fresh EXCEPT ![id] = @ + 1] ELSE fresh
    /\ call' = [op |-> "incrementItemViews", id |-> id, ret |-> Ok(Undefined)]
    /\ UNCHANGED <<users, messages, userIdCounter, itemIdCounter, messageIdCounter, issued,
                   pending, held, loose, done>>

(***************************************************************************)
(* updateItem and incrementItemViews with their await.  Both begin with    *)
(* `const item = await this.getItem(id)`: getItem runs at once and reads   *)
(* the map, then the method is suspended and other calls run before it     *)
(* goes on with the object it read.  The suspended calls all wait on the   *)
(* same kind of promise, so they resume in the order they were started.    *)
(***************************************************************************)
\* What the history keeps for an item no suspended call has completed on.
NoneDone == [incs |-> 0, data |-> {}]
DoneAt(k) == IF k \in DOMAIN done THEN done[k] ELSE NoneDone

\* The suspended calls of method op on id.
Suspended(op, id) == {i \in DOMAIN pending : pending[i].op = op /\ pending[i].id = id}

\* updateItem(id, updateData) up to its await.
StartUpdateItem(id, updateData) ==
    /\ Len(pending) < MaxPending
    /\ pending' = Append(pending, [op |-> "updateItem", id |-> id, data |-> updateData,
                                   item |-> IF MapHas(items, id) THEN InMap(id) ELSE NoRef])
    /\ UNCHANGED <<users, items, messages, userIdCounter, itemIdCounter, messageIdCounter,
                   call, issued, fresh, held, loose, done>>

\* incrementItemViews(id) up to its await.
StartIncrementItemViews(id) ==
    /\ Len(pending) < MaxPending
    /\ MapHas(items, id) => ViewsBelowBound(MapGet(items, id))
    /\ DoneAt(id).incs + Cardinality(Suspended("incrementItemViews", id)) < MaxViews
    /\ pending' = Append(pending, [op |-> "incrementItemViews", id |-> id,
                                   item |-> IF MapHas(items, id) THEN InMap(id) ELSE NoRef])
    /\ UNCHANGED <<users, items, messages, userIdCounter, itemIdCounter, messageIdCounter,
                   call, issued, fresh, held, loose, done>>

\* updateItem after its await: the merge of the object read before it is stored.
ResumeUpdateItem ==
    /\ pending # <<>>
    /\ Head(pending).op = "updateItem"
    /\ LET c == Head(pending)
           rest == [Refs EXCEPT !.pending = Tail(pending)]
       IN IF c.item = NoRef
          THEN /\ call' = [op |-> "updateItem", id |-> c.id, data |-> c.data,
                           ret |-> Ok(Undefined)]
               /\ SetRefs(rest)
               /\ UNCHANGED <<items, fresh, done>>
          ELSE LET item == Deref(c.item)
                   updatedItem == Spread(item, c.data)
               IN /\ items' = MapSet(items, c.id, updatedItem)
                  /\ SetRefs(Collect(Detach(rest, items, c.id)))
                  /\ call' = [op |-> "updateItem", id |-> c.id, data |-> c.data,
                              ret |-> Ok(updatedItem)]
                  /\ fresh' = Without(fresh, c.id)
                  /\ done' = With(done, c.id, [DoneAt(c.id) EXCEPT !.data = @ \cup {c.data}])
    /\ UNCHANGED <<users, messages, userIdCounter, itemIdCounter, messageIdCounter, issued>>

\* incrementItemViews after its await: the object read before it is changed in place
\* and set under the key again.
ResumeIncrementItemViews ==
    /\ pending # <<>>
    /\ Head(pending).op = "incrementItemViews"
    /\ LET c == Head(pending)
           rest == [Refs EXCEPT !.pending = Tail(pending)]
       IN /\ IF c.item = NoRef
             THEN /\ SetRefs(rest)
                  /\ UNCHANGED <<items, fresh, done>>
             ELSE LET item == Deref(c.item)
                      bumped == With(item, "views", PlusOne(Get(item, "views")))
                  IN /\ items' = MapSet(items, c.id, bumped)
                     /\ SetRefs(Collect(IF c.item.at = "loose"
                                        THEN Attach(Detach(rest, items, c.id), c.item.n, c.id)
                                        ELSE rest))
                     /\ fresh' = IF c.id \in DOMAIN fresh
                                 THEN [fresh EXCEPT ![c.id] = @ + 1]
                                 ELSE fresh
                     /\ done' = With(done, c.id, [DoneAt(c.id) EXCEPT !.incs = @ + 1])
          /\ call' = [op |-> "incrementItemViews", id |-> c.id, ret |-> Ok(Undefined)]
    /\ UNCHANGED <<users, messages, userIdCounter, itemIdCounter, messageIdCounter, issued>>

(***************************************************************************)
(* The store as its callers drive it, one call after the other.            *)
(***************************************************************************)
Next ==
    \/ CreateItem(ItemA, 0)
    \/ \E id \in ItemKeys, p \in Partials : UpdateItem(id, p)
    \/ \E id \in ItemKeys : DeleteItem(id)
    \/ \E id \in ItemKeys : IncrementItemViews(id)

Spec == Init /\ [][Next]_vars

\* Creations of the three entity types and deletions.
NextIds ==
    \/ \E u \in InsertUsers : CreateUser(u, 0)
    \/ \E ins \in InsertItems, t \in Times : CreateItem(ins, t)
    \/ \E m \in InsertMessages : CreateMessage(m, 0)
    \/ \E id \in ItemKeys : DeleteItem(id)

SpecIds == Init /\ [][NextIds]_vars

\* updateItem and incrementItemViews calls made while others are suspended.
NextAwait ==
    \/ CreateItem(ItemA, 0)
    \/ \E id \in ItemKeys : StartUpdateItem(id, PartialLocation)
    \/ \E id \in ItemKeys : StartIncrementItemViews(id)
    \/ ResumeUpdateItem
    \/ ResumeIncrementItemViews

SpecAwait == Init /\ [][NextAwait]_vars

\* The same with deletions made while calls are suspended.
NextDelete ==
    \/ CreateItem(ItemA, 0)
    \/ \E id \in ItemKeys : StartUpdateItem(id, PartialLocation)
    \/ \E id \in ItemKeys : StartIncrementItemViews(id)
    \/ ResumeUpdateItem
    \/ ResumeIncrementItemViews
    \/ \E id \in ItemKeys : DeleteItem(id)

SpecDelete == Init /\ [][NextDelete]_vars

\* Items created from every kind of input, and read back.
NextCreate ==
    \/ \E ins \in CreateInputs, t \in Times : CreateItem(ins, t)
    \/ \E id \in ItemKeys : GetItem(id)

SpecCreate == Init /\ [][NextCreate]_vars

\* A caller keeps the item that the last getItem or createItem call returned: what
\* it holds is the object the map holds, since neither method copies it.
KeepItem ==
    /\ held = NoRef
    /\ call.op \in {"getItem", "createItem"}
    /\ call.ret.v # Undefined
    /\ LET k == IF call.op = "getItem" THEN call.id ELSE call.ret.v["id"].n
       IN /\ MapHas(items, k)
          /\ MapGet(items, k) = call.ret.v
          /\ held' = InMap(k)
    /\ UNCHANGED <<users, items, messages, userIdCounter, itemIdCounter, messageIdCounter,
                   call, issued, fresh, pending, loose, done>>

\* The item the caller holds, as the caller reads it now.
HeldItem == Deref(held)

\* The store with a caller that keeps an item while the writes go on.
NextShare ==
    \/ CreateItem(ItemA, 0)
    \/ \E id \in ItemKeys : GetItem(id)
    \/ KeepItem
    \/ \E id \in ItemKeys : IncrementItemViews(id)
    \/ \E id \in ItemKeys : UpdateItem(id, PartialLocation)
    \/ \E id \in ItemKeys : DeleteItem(id)

SpecShare == Init /\ [][NextShare]_vars


(***************************************************************************)
(* MemStorage: the queries.                                                *)
(***************************************************************************)
\* a === b on the values compared here: primitives are equal when their type and value
\* are, NaN equals nothing, and an object, array or Date given by the caller is never
\* the object a stored item holds.
StrictEq(a, b) ==
    /\ a.t \in {"undefined", "null", "number", "string", "boolean"}
    /\ a = b

\* value.getTime() exists: the value is a Date.
HasGetTime(v) == IsDate(v)

\* x put into the list sorted by createdAt descending, after the elements that are not older.
RECURSIVE InsertByCreatedAt(_, _)
InsertByCreatedAt(sorted, x) ==
    IF sorted = <<>> THEN <<x>>
    ELSE IF Head(sorted)["createdAt"].ms >= x["createdAt"].ms
         THEN <<Head(sorted)>> \o InsertByCreatedAt(Tail(sorted), x)
         ELSE <<x>> \o sorted

\* The stable sort of a list of items with (a, b) => b.createdAt.getTime() - a.createdAt.getTime().
RECURSIVE SortedByCreatedAt(_)
SortedByCreatedAt(list) ==
    IF list = <<>> THEN <<>>
    ELSE InsertByCreatedAt(SortedByCreatedAt(SubSeq(list, 1, Len(list) - 1)), list[Len(list)])

\* items.sort(...): the comparator is called as soon as there are two elements, and
\* throws a TypeError on an element whose createdAt is not a Date.
SortItems(list) ==
    IF Len(list) >= 2 /\ \E i \in 1..Len(list) : ~HasGetTime(Get(list[i], "createdAt"))
    THEN Throw("TypeError")
    ELSE IF Len(list) < 2 THEN Ok(list)
    ELSE Ok(SortedByCreatedAt(list))

\* Array.prototype.slice(start, end): negative indices count from the end.
RelativeIndex(i, len) == IF i < 0 THEN Max(len + i, 0) ELSE Min(i, len)
Slice(list, start, end) ==
    SubSeq(list, RelativeIndex(start, Len(list)) + 1, RelativeIndex(end, Len(list)))

\* The status, type and userId filters of getItems, in that order.
FilterByOptions(list, options) ==
    LET byStatus == IF Truthy(Get(options, "status"))
                    THEN SelectSeq(list, LAMBDA item : StrictEq(Get(item, "status"), options["status"]))
                    ELSE list
        byType == IF Truthy(Get(options, "type"))
                  THEN SelectSeq(byStatus, LAMBDA item : StrictEq(Get(item, "type"), options["type"]))
                  ELSE byStatus
    IN IF Get(options, "userId") # Undefined
       THEN SelectSeq(byType, LAMBDA item : StrictEq(Get(item, "userId"), options["userId"]))
       ELSE byType

\* getItems(options) on the map m; options = Undefined is the call without argument.
\* limit and offset are numbers or NaN (the route computes them with parseInt).
GetItemsResult(m, options) ==
    IF options = Undefined THEN Ok(MapValues(m))
    ELSE LET sorted == SortItems(FilterByOptions(MapValues(m), options))
         IN IF sorted.t = "throw" THEN sorted
            ELSE IF Truthy(Get(options, "limit"))
                 THEN LET offset == OrElse(Get(options, "offset"), Num(0))
                      IN Ok(Slice(sorted.v, offset.n, offset.n + options["limit"].n))
                 ELSE sorted

\* item.name.toLowerCase().includes(q) || description ... || location ... : "throw" when
\* the field reached is not a string.
TextMatch(item, lowerQuery) ==
    LET field(f) == Get(item, f)
        hit(f) == Includes(ToLowerCase(field(f).s), lowerQuery)
    IN IF ~IsStr(field("name")) THEN "throw"
       ELSE IF hit("name") THEN "keep"
       ELSE IF ~IsStr(field("description")) THEN "throw"
       ELSE IF hit("description") THEN "keep"
       ELSE IF ~IsStr(field("location")) THEN "throw"
       ELSE IF hit("location") THEN "keep"
       ELSE "drop"

\* new Date(v).toDateString(): the calendar day of a time, "Invalid Date" for a value
\* that is no time (the strings of this model are no dates).
ToDateString(v) ==
    CASE v.t = "Date" -> [day |-> v.ms \div DayMs]
      [] v.t = "number" -> [day |-> v.n \div DayMs]
      [] v.t = "null" -> [day |-> 0]
      [] OTHER -> [day |-> "Invalid Date"]

\* searchItems(query, options) on the map m.
SearchItemsResult(m, query, options) ==
    LET all == MapValues(m)
        lowerQuery == ToLowerCase(query.s)
        textThrows == Truthy(query) /\ \E i \in 1..Len(all) : TextMatch(all[i], lowerQuery) = "throw"
        byText == IF Truthy(query)
                  THEN SelectSeq(all, LAMBDA item : TextMatch(item, lowerQuery) = "keep")
                  ELSE all
        opts == IF options = Undefined THEN EmptyObj ELSE options
        byStatus == IF Truthy(Get(opts, "status"))
                    THEN SelectSeq(byText, LAMBDA item : StrictEq(Get(item, "status"), opts["status"]))
                    ELSE byText
        byType == IF Truthy(Get(opts, "type"))
                  THEN SelectSeq(byStatus, LAMBDA item : StrictEq(Get(item, "type"), opts["type"]))
                  ELSE byStatus
        byDate == IF Truthy(Get(opts, "date"))
                  THEN SelectSeq(byType, LAMBDA item :
                           ToDateString(Get(item, "date")) = ToDateString(opts["date"]))
                  ELSE byType
        locationThrows == Truthy(Get(opts, "location"))
                          /\ \E i \in 1..Len(byDate) : ~IsStr(Get(byDate[i], "location"))
        byLocation == IF Truthy(Get(opts, "location"))
                      THEN SelectSeq(byDate, LAMBDA item :
                               Includes(ToLowerCase(item["location"].s),
                                        ToLowerCase(opts["location"].s)))
                      ELSE byDate
    IN IF textThrows THEN Throw("TypeError")
       ELSE IF locationThrows THEN Throw("TypeError")
       ELSE SortItems(byLocation)

\* Options given to getItems.
GetItemsOptions ==
    { Undefined,
      EmptyObj,
      [status |-> Str(Lost)],
      [status |-> Str(<<>>)],
      [type |-> Str(<<"k">>), userId |-> Num(2)],
      [limit |-> Num(0)],
      [limit |-> Num(1), offset |-> Num(1)],
      [limit |-> Num(2), offset |-> Num(MaxItems + 1)],
      [status |-> Str(Found), limit |-> Num(MaxItems)] }

\* getItems(options)
GetItems(options) ==
    /\ call' = [op |-> "getItems", options |-> options, ret |-> GetItemsResult(items, options)]
    /\ UNCHANGED <<users, items, messages, userIdCounter, itemIdCounter,
                   messageIdCounter, issued, fresh, pending, held, loose, done>>

\* Queries and filters given to searchItems.
SearchInputs ==
    { <<Str(<<>>), [location |-> Str(<<"d", "e", "l">>)]>>,
      <<Str(<<"b", "a", "g">>), EmptyObj>>,
      <<Str(<<"B", "A", "G">>), [status |-> Str(Lost)]>>,
      <<Str(<<>>), [status |-> Str(<<>>), type |-> Str(<<"k">>)]>>,
      <<Str(<<>>), [date |-> DateV(DayMs - 1)]>>,
      <<Str(<<"z">>), Undefined>> }

\* searchItems(query, options)
SearchItems(query, options) ==
    /\ call' = [op |-> "searchItems", query |-> query, options |-> options,
                ret |-> SearchItemsResult(items, query, options)]
    /\ UNCHANGED <<users, items, messages, userIdCounter, itemIdCounter,
                   messageIdCounter, issued, fresh, pending, held, loose, done>>

(***************************************************************************)
(* src/routes.ts: conversions of request parameters.                       *)
(***************************************************************************)
DigitChars == <<"0", "1", "2", "3", "4", "5", "6", "7", "8", "9">>
IsDigit(c) == \E i \in 1..Len(DigitChars) : DigitChars[i] = c
DigitValue(c) == (CHOOSE i \in 1..Len(DigitChars) : DigitChars[i] = c) - 1

\* The longest prefix of s made of decimal digits.
RECURSIVE DigitsPrefix(_)
DigitsPrefix(s) ==
    IF s # <<>> /\ IsDigit(Head(s)) THEN <<Head(s)>> \o DigitsPrefix(Tail(s)) ELSE <<>>

\* The number written by the digits d.
RECURSIVE DigitsValue(_)
DigitsValue(d) ==
    IF d = <<>> THEN 0 ELSE 10 * DigitsValue(SubSeq(d, 1, Len(d) - 1)) + DigitValue(d[Len(d)])

\* parseInt(v): an optional sign and the leading decimal digits of a string, NaN when
\* there is none; a whole number is returned as it is. (Leading white space and the 0x
\* prefix are not modelled.)
ParseInt(v) ==
    CASE v.t = "number" -> v
      [] v.t = "string" ->
           LET neg == v.s # <<>> /\ Head(v.s) = "-"
               rest == IF neg THEN Tail(v.s) ELSE v.s
               d == DigitsPrefix(rest)
           IN IF d = <<>> THEN NaN
              ELSE Num((IF neg THEN -1 ELSE 1) * DigitsValue(d))
      [] OTHER -> NaN

\* parseFloat(v): as parseInt, and a fraction after the digits is kept beside the whole
\* part. (Exponents are not modelled.)
ParseFloat(v) ==
    CASE v.t = "number" -> v
      [] v.t = "string" ->
           LET neg == v.s # <<>> /\ Head(v.s) = "-"
               rest == IF neg THEN Tail(v.s) ELSE v.s
               d == DigitsPrefix(rest)
               after == SubSeq(rest, Len(d) + 1, Len(rest))
               frac == IF after # <<>> /\ Head(after) = "." THEN DigitsPrefix(Tail(after))
                       ELSE <<>>
               whole == (IF neg THEN -1 ELSE 1) * DigitsValue(d)
           IN IF d = <<>> /\ frac = <<>> THEN NaN
              ELSE IF frac = <<>> THEN Num(whole)
              ELSE [t |-> "number", n |-> whole, frac |-> frac]
      [] OTHER -> NaN

\* Map.get with a key computed by parseInt: NaN is the key of no entry.
LookupItem(k) == IF IsNum(k) THEN MapGet(items, k.n) ELSE Undefined
HasItem(k) == IsNum(k) /\ MapHas(items, k.n)

(***************************************************************************)
(* src/routes.ts: PATCH /api/items/:id                                     *)
(***************************************************************************)
\* req.params.id values: the decimal form of every key, and a non-numeric one.
IdParams == {<<DigitChars[k + 1]>> : k \in ItemKeys} \cup {<<"x">>}

\* req.body values of a multipart request: every field is a string.
BodyCoords == [name |-> Str(<<"B">>), lat |-> Str(<<"1">>), lng |-> Str(<<"2", ".", "5">>)]
BodyClient == [views |-> Str(<<"0">>), createdAt |-> Str(<<"x">>), userId |-> Str(<<"2">>)]
Bodies == {BodyCoords, BodyClient}

\* req.files: undefined when the request is not multipart, else the uploaded files
\* (their generated file names).
FilesInputs == {Undefined, Arr(<<>>), Arr(<<Str(<<"f">>)>>)}

UploadsPrefix == <<"/", "u", "p", "l", "o", "a", "d", "s", "/">>

\* files.map(file => `/uploads/${file.filename}`)
UploadPaths(files) == [i \in 1..Len(files.a) |-> Str(UploadsPrefix \o files.a[i].s)]

\* The updateData with the request body spread over images and userId, instead of under them.
PatchUpdateDataBodyWins(body, imagePaths) ==
    LET updateData ==
            Spread([images |-> imagePaths,
                    userId |-> IF Truthy(Get(body, "userId"))
                               THEN ParseInt(body["userId"]) ELSE Undefined],
                   body)
    IN IF Truthy(Get(body, "lat")) /\ Truthy(Get(body, "lng"))
       THEN With(updateData, "coordinates",
                 Obj([lat |-> ParseFloat(body["lat"]), lng |-> ParseFloat(body["lng"])]))
       ELSE updateData

\* The updateData the handler builds from the request and the item's current images.
PatchUpdateData(body, imagePaths) ==
    LET updateData ==
            Spread(body,
                   [images |-> imagePaths,
                    userId |-> IF Truthy(Get(body, "userId"))
                               THEN ParseInt(body["userId"]) ELSE Undefined])
    IN IF Truthy(Get(body, "lat")) /\ Truthy(Get(body, "lng"))
       THEN With(updateData, "coordinates",
                 Obj([lat |-> ParseFloat(body["lat"]), lng |-> ParseFloat(body["lng"])]))
       ELSE updateData

\* app.patch("/api/items/:id"): the handler run to completion. A thrown TypeError
\* (files.length on undefined, spreading a value that is not iterable) is caught and
\* answered by handleError with status 500.
PatchItem(idParam, body, files) ==
    LET itemId == ParseInt(Str(idParam))
        existingItem == LookupItem(itemId)
        respond(status) == [op |-> "PATCH /api/items/:id", id |-> idParam, body |-> body,
                            files |-> files, status |-> status]
    IN /\ IF ~HasItem(itemId)
          THEN /\ call' = respond(404)
               /\ UNCHANGED <<items, fresh, pending, held, loose>>
          ELSE LET stored == OrElse(Get(existingItem, "images"), Arr(<<>>))
               IN IF files = Undefined \/ (Len(files.a) > 0 /\ stored.t # "array")
                  THEN /\ call' = respond(500)
                       /\ UNCHANGED <<items, fresh, pending, held, loose>>
                  ELSE LET imagePaths == IF Len(files.a) > 0
                                         THEN Arr(stored.a \o UploadPaths(files))
                                         ELSE stored
                           updateData == PatchUpdateData(body, imagePaths)
                           updatedItem == Spread(existingItem, updateData)
                       IN /\ imagePaths.t = "array" => Len(imagePaths.a) <= MaxImages
                          /\ items' = MapSet(items, itemId.n, updatedItem)
                          /\ fresh' = Without(fresh, itemId.n)
                          /\ ObjectLeaves(itemId.n)
                          /\ call' = respond(200)
       /\ UNCHANGED <<users, messages, userIdCounter, itemIdCounter, messageIdCounter, issued,
                      done>>

\* The store driven through the update route next to direct calls.
NextHttp ==
    \/ CreateItem(ItemA, 0)
    \/ \E id \in ItemKeys : IncrementItemViews(id)
    \/ \E idParam \in IdParams, body \in Bodies, files \in FilesInputs :
          PatchItem(idParam, body, files)

SpecHttp == Init /\ [][NextHttp]_vars

(***************************************************************************)
(* src/routes.ts: GET /api/items                                           *)
(***************************************************************************)
\* req.query values.
ListQueries ==
    { EmptyObj,
      [limit |-> Str(<<"0">>)],
      [status |-> Str(Lost), limit |-> Str(<<"1">>), offset |-> Str(<<"1">>)],
      [limit |-> Str(<<"x">>), offset |-> Str(<<"x">>)] }

\* The options the handler builds: limit and offset default to 10 and 0 and go
\* through parseInt; status and type are passed on when truthy.
ListOptions(query) ==
    LET limit == IF Get(query, "limit") = Undefined THEN Num(10) ELSE query["limit"]
        offset == IF Get(query, "offset") = Undefined THEN Num(0) ELSE query["offset"]
        base == [limit |-> ParseInt(limit), offset |-> ParseInt(offset)]
        withStatus == IF Truthy(Get(query, "status")) THEN With(base, "status", query["status"])
                      ELSE base
    IN IF Truthy(Get(query, "type")) THEN With(withStatus, "type", query["type"])
       ELSE withStatus

\* app.get("/api/items"): the items as the response body, or handleError's 500.
ListItems(query) ==
    /\ LET result == GetItemsResult(items, ListOptions(query))
       IN call' = IF result.t = "throw"
                  THEN [op |-> "GET /api/items", query |-> query, status |-> 500]
                  ELSE [op |-> "GET /api/items", query |-> query, status |-> 200,
                        body |-> result.v]
    /\ UNCHANGED <<users, items, messages, userIdCounter, itemIdCounter,
                   messageIdCounter, issued, fresh, pending, held, loose, done>>

\* The store with its queries: items are created, deleted and changed through the
\* update route, and listed and searched.
NextQuery ==
    \/ \E ins \in InsertItems, t \in Times : CreateItem(ins, t)
    \/ \E id \in ItemKeys : DeleteItem(id)
    \/ \E idParam \in IdParams : PatchItem(idParam, BodyClient, Arr(<<>>))
    \/ \E id \in ItemKeys : GetItem(id)
    \/ \E options \in GetItemsOptions : GetItems(options)
    \/ \E input \in SearchInputs : SearchItems(input[1], input[2])
    \/ \E query \in ListQueries : ListItems(query)

SpecQuery == Init /\ [][NextQuery]_vars

(***************************************************************************)
(* MemStorage: the messages.  No method replaces or removes a message      *)
(* object, so the object markMessageAsRead reads before its await is the   *)
(* stored one when it resumes, whatever calls ran in between.              *)
(***************************************************************************)
\* getMessages(userId) on the map m.
GetMessagesToOnly(m, userId) ==
    SortItems(SelectSeq(MapValues(m),
                        LAMBDA message : StrictEq(Get(message, "toUserId"), userId)))

GetMessagesResult(m, userId) ==
    SortItems(SelectSeq(MapValues(m),
                        LAMBDA message : \/ StrictEq(Get(message, "toUserId"), userId)
                                         \/ StrictEq(Get(message, "fromUserId"), userId)))

\* getMessages(userId)
GetMessages(userId) ==
    /\ call' = [op |-> "getMessages", userId |-> userId,
                ret |-> GetMessagesResult(messages, userId)]
    /\ UNCHANGED <<users, items, messages, userIdCounter, itemIdCounter,
                   messageIdCounter, issued, fresh, pending, held, loose, done>>

\* markMessageAsRead negating the flag instead of setting it.
MarkMessageAsReadToggles(id) ==
    /\ IF ~MapHas(messages, id)
       THEN /\ call' = [op |-> "markMessageAsRead", id |-> id, ret |-> Ok(Bool(FALSE))]
            /\ UNCHANGED messages
       ELSE LET message == MapGet(messages, id)
                marked == With(message, "read", Bool(~Truthy(Get(message, "read"))))
            IN /\ messages' = MapSet(messages, id, marked)
               /\ call' = [op |-> "markMessageAsRead", id |-> id, ret |-> Ok(Bool(TRUE))]
    /\ UNCHANGED <<users, items, userIdCounter, itemIdCounter, messageIdCounter,
                   issued, fresh, pending, held, loose, done>>

\* markMessageAsRead(id)
MarkMessageAsRead(id) ==
    /\ IF ~MapHas(messages, id)
       THEN /\ call' = [op |-> "markMessageAsRead", id |-> id, ret |-> Ok(Bool(FALSE))]
            /\ UNCHANGED messages
       ELSE LET message == MapGet(messages, id)
                marked == With(message, "read", Bool(TRUE))
            IN /\ messages' = MapSet(messages, id, marked)
               /\ call' = [op |-> "markMessageAsRead", id |-> id, ret |-> Ok(Bool(TRUE))]
    /\ UNCHANGED <<users, items, userIdCounter, itemIdCounter, messageIdCounter,
                   issued, fresh, pending, held, loose, done>>

\* The message store under its three operations.
NextMsg ==
    \/ \E m \in MessageInputs, t \in Times : CreateMessage(m, t)
    \/ \E id \in MessageKeys : MarkMessageAsRead(id)
    \/ \E userId \in UserIds : GetMessages(userId)

SpecMsg == Init /\ [][NextMsg]_vars

(***************************************************************************)
(* src/routes.ts: POST /api/users                                          *)
(***************************************************************************)
\* insertUserSchema is defined in shared/schema; it is modelled from the contract of
\* the HTTP layer: a payload is valid when it gives the four fields of a user as
\* strings, and the parsed value keeps those fields only.
UserFields == {"username", "password", "email", "name"}
ValidUser(body) == \A f \in UserFields : IsStr(Get(body, f))
ParsedUser(body) == [f \in UserFields |-> body[f]]

\* Array.prototype.find on the users: the first user whose field f is === value.
FindUser(m, f, value) ==
    LET hits == SelectSeq(MapValues(m), LAMBDA user : StrictEq(Get(user, f), value))
    IN IF hits = <<>> THEN Undefined ELSE Head(hits)

\* getUserByUsername(username) and getUserByEmail(email) on the map m.
GetUserByUsernameResult(m, username) == FindUser(m, "username", username)
GetUserByEmailResult(m, email) == FindUser(m, "email", email)

\* Request bodies: two with the same email, two with emails of their own (one
\* differs from the first by case only), and one without email.
UserA2 == [username |-> Str(<<"c">>), password |-> Str(<<"q">>),
           email |-> Str(<<"a", "@">>), name |-> Str(<<"C">>)]
UserB == [username |-> Str(<<"a">>), password |-> Str(<<"p">>),
          email |-> Str(<<"b", "@">>), name |-> Str(<<"B">>), id |-> Num(9)]
UserUpper == [username |-> Str(<<"d">>), password |-> Str(<<"p">>),
              email |-> Str(<<"A", "@">>), name |-> Str(<<"D">>)]
UserNoEmail == [username |-> Str(<<"e">>), password |-> Str(<<"p">>), name |-> Str(<<"E">>)]
UserBodies == {UserA, UserA2, UserB, UserUpper, UserNoEmail}

\* app.post("/api/users") looking the user up by username instead of by email.
PostUserChecksUsername(body, t) ==
    LET respond(status) == [op |-> "POST /api/users", body |-> body, status |-> status]
    IN /\ IF ~ValidUser(body)
          THEN /\ call' = respond(400)
               /\ UNCHANGED <<users, userIdCounter, issued>>
          ELSE LET userData == ParsedUser(body)
                   existingUser == GetUserByUsernameResult(users, userData["username"])
               IN IF existingUser # Undefined
                  THEN /\ call' = respond(409)
                       /\ UNCHANGED <<users, userIdCounter, issued>>
                  ELSE LET id == userIdCounter
                           user == Spread(userData, [id |-> Num(id), createdAt |-> DateV(t)])
                       IN /\ userIdCounter <= MaxUsers
                          /\ userIdCounter' = userIdCounter + 1
                          /\ users' = MapSet(users, id, user)
                          /\ issued' = [issued EXCEPT !.user = Append(@, user["id"])]
                          /\ call' = [op |-> "POST /api/users", body |-> body, status |-> 201,
                                      json |-> Without(user, "password")]
       /\ UNCHANGED <<items, messages, itemIdCounter, messageIdCounter, fresh,
                      pending, held, loose, done>>

\* app.post("/api/users"), with new Date() = t: 400 from handleError when the schema
\* rejects the body, 409 when getUserByEmail finds a user, else createUser and 201
\* with the user without its password.
PostUser(body, t) ==
    LET respond(status) == [op |-> "POST /api/users", body |-> body, status |-> status]
    IN /\ IF ~ValidUser(body)
          THEN /\ call' = respond(400)
               /\ UNCHANGED <<users, userIdCounter, issued>>
          ELSE LET userData == ParsedUser(body)
                   existingUser == GetUserByEmailResult(users, userData["email"])
               IN IF existingUser # Undefined
                  THEN /\ call' = respond(409)
                       /\ UNCHANGED <<users, userIdCounter, issued>>
                  ELSE LET id == userIdCounter
                           user == Spread(userData, [id |-> Num(id), createdAt |-> DateV(t)])
                       IN /\ userIdCounter <= MaxUsers
                          /\ userIdCounter' = userIdCounter + 1
                          /\ users' = MapSet(users, id, user)
                          /\ issued' = [issued EXCEPT !.user = Append(@, user["id"])]
                          /\ call' = [op |-> "POST /api/users", body |-> body, status |-> 201,
                                      json |-> Without(user, "password")]
       /\ UNCHANGED <<items, messages, itemIdCounter, messageIdCounter, fresh,
                      pending, held, loose, done>>

\* Registrations, each handled to completion before the next.
NextUsers == \E body \in UserBodies, t \in Times : PostUser(body, t)

SpecUsers == Init /\ [][NextUsers]_vars

(***************************************************************************)
(* src/routes.ts: the routes that name one item or one message.            *)
(***************************************************************************)
\* file.mimetype.startsWith('image/')
ImagePrefix == <<"i", "m", "a", "g", "e", "/">>
StartsWith(s, prefix) == Len(s) >= Len(prefix) /\ SubSeq(s, 1, Len(prefix)) = prefix

\* upload.array("images", 3)
UploadLimit == 3

\* What a PATCH request uploads in its images field: Undefined for a request that is
\* not multipart, else the files sent.
ImageFile == [originalname |-> <<"f">>, mimetype |-> ImagePrefix \o <<"p">>]
TextFile == [originalname |-> <<"t">>, mimetype |-> <<"t", "e", "x", "t", "/", "p">>]
Uploads == {Undefined, Arr(<<>>), Arr(<<ImageFile>>), Arr(<<TextFile>>)}

\* The upload middleware lets the request through to the handler: at most
\* UploadLimit files, each accepted by fileFilter.
UploadAccepted(upload) ==
    \/ upload = Undefined
    \/ /\ Len(upload.a) <= UploadLimit
       /\ \A i \in 1..Len(upload.a) : StartsWith(upload.a[i].mimetype, ImagePrefix)

\* req.files as the middleware leaves it for the handler.
ReqFiles(upload) ==
    IF upload = Undefined THEN Undefined
    ELSE Arr([i \in 1..Len(upload.a) |-> Str(upload.a[i].originalname)])

\* A PATCH /api/items/:id request: the upload middleware, then the handler.  When the
\* middleware refuses the upload it passes an error on and the handler does not run;
\* the error carries no status and is answered as a server error.
PatchRequest(idParam, body, upload) ==
    IF UploadAccepted(upload)
    THEN PatchItem(idParam, body, ReqFiles(upload))
    ELSE /\ call' = [op |-> "PATCH /api/items/:id", id |-> idParam, body |-> body,
                     refused |-> upload, status |-> 500]
         /\ UNCHANGED <<users, items, messages, userIdCounter, itemIdCounter,
                        messageIdCounter, issued, fresh, pending, held, loose, done>>

\* The map after incrementItemViews(k), k being any value: a key that is not a
\* number names no entry.
ItemsViewed(m, k) ==
    IF IsNum(k) /\ MapHas(m, k.n)
    THEN MapSet(m, k.n, With(MapGet(m, k.n), "views", PlusOne(Get(MapGet(m, k.n), "views"))))
    ELSE m

\* app.get("/api/items/:id"): 404 when getItem finds nothing, else
\* incrementItemViews(item.id) and the item read again as the response body.
GetItemRoute(idParam) ==
    LET itemId == ParseInt(Str(idParam))
        item == LookupItem(itemId)
        respond(status) == [op |-> "GET /api/items/:id", id |-> idParam, status |-> status]
    IN /\ IF ~HasItem(itemId)
          THEN /\ call' = respond(404)
               /\ UNCHANGED <<items, fresh>>
          ELSE LET k == Get(item, "id")
                   viewed == ItemsViewed(items, k)
               IN /\ IsNum(k) /\ MapHas(items, k.n) => ViewsBelowBound(MapGet(items, k.n))
                  /\ items' = viewed
                  /\ fresh' = IF IsNum(k) /\ MapHas(items, k.n) /\ k.n \in DOMAIN fresh
                              THEN [fresh EXCEPT ![k.n] = @ + 1]
                              ELSE fresh
                  /\ call' = [op |-> "GET /api/items/:id", id |-> idParam, status |-> 200,
                              json |-> MapGet(viewed, itemId.n)]
       /\ UNCHANGED <<users, messages, userIdCounter, itemIdCounter, messageIdCounter,
                      issued, pending, held, loose, done>>

\* app.delete("/api/items/:id") answering 204 whatever deleteItem returned.
DeleteItemRouteAlways204(idParam) ==
    LET itemId == ParseInt(Str(idParam))
    IN /\ call' = [op |-> "DELETE /api/items/:id", id |-> idParam, status |-> 204]
       /\ IF HasItem(itemId)
          THEN /\ items' = MapDelete(items, itemId.n)
               /\ fresh' = Without(fresh, itemId.n)
               /\ ObjectLeaves(itemId.n)
          ELSE UNCHANGED <<items, fresh, pending, held, loose>>
       /\ UNCHANGED <<users, messages, userIdCounter, itemIdCounter, messageIdCounter,
                      issued, done>>

\* app.delete("/api/items/:id"): 404 when deleteItem returns false, else 204.
DeleteItemRoute(idParam) ==
    LET itemId == ParseInt(Str(idParam))
        success == HasItem(itemId)
    IN /\ call' = [op |-> "DELETE /api/items/:id", id |-> idParam,
                   status |-> IF ~success THEN 404 ELSE 204]
       /\ IF success
          THEN /\ items' = MapDelete(items, itemId.n)
               /\ fresh' = Without(fresh, itemId.n)
               /\ ObjectLeaves(itemId.n)
          ELSE UNCHANGED <<items, fresh, pending, held, loose>>
       /\ UNCHANGED <<users, messages, userIdCounter, itemIdCounter, messageIdCounter,
                      issued, done>>

\* A message is stored under the number k.
HasMessage(k) == IsNum(k) /\ MapHas(messages, k.n)

\* app.patch("/api/messages/:id/read"): 404 when markMessageAsRead returns false,
\* else 204.
MarkReadRoute(idParam) ==
    LET messageId == ParseInt(Str(idParam))
        success == HasMessage(messageId)
    IN /\ call' = [op |-> "PATCH /api/messages/:id/read", id |-> idParam,
                   status |-> IF ~success THEN 404 ELSE 204]
       /\ messages' = IF success
                      THEN MapSet(messages, messageId.n,
                                  With(MapGet(messages, messageId.n), "read", Bool(TRUE)))
                      ELSE messages
       /\ UNCHANGED <<users, items, userIdCounter, itemIdCounter, messageIdCounter,
                      issued, fresh, pending, held, loose, done>>

\* A request body that names images of its own, and an upload of two images.
BodyImages == [name |-> Str(<<"N">>), images |-> Str(<<"z">>)]
OtherImageFile == [originalname |-> <<"g">>, mimetype |-> ImagePrefix \o <<"j">>]
ImageUploads == {Arr(<<>>), Arr(<<ImageFile>>), Arr(<<OtherImageFile, ImageFile>>),
                 Arr(<<TextFile>>)}

\* One item, with or without images, behind the update route.
NextImages ==
    \/ items = <<>> /\ \E ins \in InsertItems : CreateItem(ins, 0)
    \/ \E idParam \in IdParams, body \in {BodyImages, BodyCoords}, upload \in ImageUploads :
          PatchRequest(idParam, body, upload)

SpecImages == Init /\ [][NextImages]_vars

\* Items and messages behind the routes that name one of them.  An item is posted
\* when none is stored, so that at most one item is stored at a time.
NextRoutes ==
    \/ items = <<>> /\ CreateItem(ItemA, 0)
    \/ CreateMessage(MessageA, 0)
    \/ \E idParam \in IdParams : GetItemRoute(idParam)
    \/ \E idParam \in IdParams, upload \in Uploads : PatchRequest(idParam, BodyCoords, upload)
    \/ \E idParam \in IdParams : DeleteItemRoute(idParam)
    \/ \E idParam \in IdParams : MarkReadRoute(idParam)

SpecRoutes == Init /\ [][NextRoutes]_vars

(***************************************************************************)
(* Properties.                                                             *)
(***************************************************************************)
\* The item stored under key k.
ItemAt(k) == MapGet(items, k)
StoredKeys == MapKeys(items)

\* C1: for each entity type the ids returned by the create calls are numbers that
\* strictly increase in call order (so no id is assigned twice), whatever
\* creations and deletions were made before.
IdsStrictlyIncreasing ==
    \A ty \in {"user", "item", "message"} :
        \A i, j \in 1..Len(issued[ty]) :
            /\ IsNum(issued[ty][i])
            /\ i < j => issued[ty][i].n < issued[ty][j].n

\* C1 witness: an item was created after a deletion (two ids issued, one item stored,
\* the last call a creation), and users and messages were created as well.
IdIssuedAfterDelete ==
    /\ call.op = "createItem"
    /\ Len(issued.item) = 2
    /\ Len(items) = 1
    /\ Len(issued.user) = 2
    /\ Len(issued.message) = 2

\* C2: updateItem on an existing item merges: each key of the partial takes the
\* partial's value, every other key keeps its value, the result is the item then
\* stored under the id, and no other entry of the map changes.
UpdateItemMerges ==
    [][(call'.op = "updateItem" /\ MapHas(items, call'.id)) =>
        LET id == call'.id
            partial == call'.data
            before == MapGet(items, id)
            after == MapGet(items', id)
        IN /\ MapHas(items', id)
           /\ DOMAIN after = DOMAIN before \cup DOMAIN partial
           /\ \A k \in DOMAIN partial : after[k] = partial[k]
           /\ \A k \in DOMAIN before \ DOMAIN partial : after[k] = before[k]
           /\ call'.ret = Ok(after)
           /\ MapKeys(items') = MapKeys(items)
           /\ \A k \in MapKeys(items) \ {id} : MapGet(items', k) = MapGet(items, k)]_vars

\* C2 witness: updateItem with {location, locationDetails} was applied to a stored item:
\* location is the new one, the name is still the one the item was created with.
UpdatedLocationKeptName ==
    /\ call.op = "updateItem"
    /\ call.data = PartialLocation
    /\ MapHas(items, call.id)
    /\ ItemAt(call.id)["location"] = PartialLocation.location
    /\ ItemAt(call.id)["locationDetails"] = Undefined
    /\ ItemAt(call.id)["name"] = ItemA.name
    /\ Len(items) = 2

\* C5: the createdAt of a stored item never changes.
CreatedAtNeverMutated ==
    [][\A k \in MapKeys(items) \cap MapKeys(items') :
          MapGet(items', k)["createdAt"] = MapGet(items, k)["createdAt"]]_vars

\* C6: no two stored items carry the same id field.
ItemIdsUnique ==
    \A i, j \in 1..Len(items) : i # j => items[i].val["id"] # items[j].val["id"]

\* C10: an item that was created and never updated has views equal to the number of
\* incrementItemViews calls made on it; a call on a stored item changes nothing but
\* that item's views; a call on a missing id changes nothing and returns normally.
IncrementViewsCounts ==
    /\ [](\A k \in DOMAIN fresh :
             MapHas(items, k) /\ ItemAt(k)["views"] = Num(fresh[k]))
    /\ [][call'.op = "incrementItemViews" =>
            /\ call'.ret = Ok(Undefined)
            /\ <<users, messages, userIdCounter, itemIdCounter, messageIdCounter>>' =
                 <<users, messages, userIdCounter, itemIdCounter, messageIdCounter>>
            /\ MapKeys(items') = MapKeys(items)
            /\ \A k \in MapKeys(items) \ {call'.id} : MapGet(items', k) = MapGet(items, k)
            /\ IF MapHas(items, call'.id)
               THEN LET before == MapGet(items, call'.id)
                        after == MapGet(items', call'.id)
                    IN /\ DOMAIN after = DOMAIN before
                       /\ \A f \in DOMAIN before \ {"views"} : after[f] = before[f]
                       /\ IsNum(before["views"]) =>
                            after["views"] = Num(before["views"].n + 1)
               ELSE items' = items]_vars

\* C10 witness: the last call was the second incrementItemViews on a never-updated item,
\* which now has views = 2, next to another stored item.
ViewedTwice ==
    /\ call.op = "incrementItemViews"
    /\ call.id \in DOMAIN fresh
    /\ fresh[call.id] = 2
    /\ ItemAt(call.id)["views"] = Num(2)
    /\ Len(items) = 2


\* C3: a PATCH /api/items/:id answered 200 leaves every field of the item that the
\* request body does not name as it was (images apart, which the uploaded files
\* extend); in particular userId when the body carries no userId.
PatchKeepsAbsentFields ==
    [][(call'.op = "PATCH /api/items/:id" /\ call'.status = 200) =>
        LET k == ParseInt(Str(call'.id)).n
            before == MapGet(items, k)
            after == MapGet(items', k)
        IN \A f \in DOMAIN before \ (DOMAIN call'.body \cup {"images"}) :
              f \in DOMAIN after /\ after[f] = before[f]]_vars

\* C4: the views of a stored item is 0 when the item is created and afterwards changes
\* only by an incrementItemViews call on that item, which adds 1 to a number.
ViewsOnlyIncremented ==
    [][/\ \A k \in MapKeys(items') \ MapKeys(items) : MapGet(items', k)["views"] = Num(0)
       /\ \A k \in MapKeys(items) \cap MapKeys(items') :
             LET v == MapGet(items, k)["views"]
                 w == MapGet(items', k)["views"]
             IN \/ w = v
                \/ /\ call'.op = "incrementItemViews"
                   /\ call'.id = k
                   /\ IsNum(v)
                   /\ w = Num(v.n + 1)]_vars


\* A filter of an options object is supplied when the object has the key with a
\* value other than undefined.
Supplied(options, k) == options # Undefined /\ Get(options, k) # Undefined

\* The stored items, in the order of the map.
Stored == MapValues(items)

\* The elements of list that satisfy P, in list order.
Matching(list, P(_)) == SelectSeq(list, P)

\* r lists exactly the elements of list, each as often as list does.
SameElements(r, list) ==
    /\ Len(r) = Len(list)
    /\ \A i \in 1..Len(r) :
          Cardinality({j \in 1..Len(r) : r[j] = r[i]}) =
          Cardinality({j \in 1..Len(list) : list[j] = r[i]})

\* r is ordered by createdAt, most recent first.
RecentFirst(r) ==
    \A i, j \in 1..Len(r) :
        i < j => /\ IsDate(Get(r[i], "createdAt"))
                 /\ IsDate(Get(r[j], "createdAt"))
                 /\ r[i]["createdAt"].ms >= r[j]["createdAt"].ms

\* The item equals every supplied status, type and userId filter.
EqualsFilters(item, options) ==
    \A k \in {"status", "type", "userId"} :
        Supplied(options, k) => Get(item, k) = options[k]

\* The orderings of list.
Orderings(list) ==
    LET n == Len(list)
        perms == {p \in [1..n -> 1..n] : \A i, j \in 1..n : p[i] = p[j] => i = j}
    IN {[i \in 1..n |-> list[p[i]]] : p \in perms}

\* C7: getItems with a limit >= 0 and an offset >= 0 (0 when absent) returns, without
\* error, the elements at positions offset .. offset+limit-1 of the matching items
\* ordered most recent first: at most limit elements, none when offset is past the end.
GetItemsReturnsPage ==
    (/\ call.op = "getItems"
     /\ Supplied(call.options, "limit")
     /\ IsNum(call.options["limit"]) /\ call.options["limit"].n >= 0
     /\ Supplied(call.options, "offset") =>
          IsNum(call.options["offset"]) /\ call.options["offset"].n >= 0)
    => LET limit == call.options["limit"].n
           offset == IF Supplied(call.options, "offset") THEN call.options["offset"].n ELSE 0
           matching == Matching(Stored, LAMBDA item : EqualsFilters(item, call.options))
       IN /\ call.ret.t = "ok"
          /\ Len(call.ret.v) <= limit
          /\ offset >= Len(matching) => call.ret.v = <<>>
          /\ \E L \in Orderings(matching) :
                /\ RecentFirst(L)
                /\ call.ret.v = SubSeq(L, offset + 1, Min(offset + limit, Len(L)))

\* C8: getItems with an options object (and no limit) returns exactly the stored items
\* that equal every supplied status, type and userId filter, most recent first.
GetItemsFiltersAndSorts ==
    (/\ call.op = "getItems"
     /\ call.options # Undefined
     /\ ~Supplied(call.options, "limit"))
    => /\ call.ret.t = "ok"
       /\ SameElements(call.ret.v,
                       Matching(Stored, LAMBDA item : EqualsFilters(item, call.options)))
       /\ RecentFirst(call.ret.v)

\* The field f of the item contains the string q, letter case ignored.
ContainsIgnoringCase(item, f, q) ==
    IsStr(Get(item, f)) /\ Includes(ToLowerCase(item[f].s), ToLowerCase(q))

\* The item satisfies the query and every filter of searchItems that is present.
SatisfiesSearch(item, query, options) ==
    /\ \/ query = Undefined
       \/ query.s = <<>>
       \/ \E f \in {"name", "description", "location"} : ContainsIgnoringCase(item, f, query.s)
    /\ Supplied(options, "status") => Get(item, "status") = options["status"]
    /\ Supplied(options, "type") => Get(item, "type") = options["type"]
    /\ Supplied(options, "date") =>
          ToDateString(Get(item, "date")) = ToDateString(options["date"])
    /\ Supplied(options, "location") =>
          ContainsIgnoringCase(item, "location", options["location"].s)

\* C9: searchItems returns exactly the stored items that satisfy the query and every
\* filter present, most recent first.
SearchItemsFiltersAndSorts ==
    call.op = "searchItems"
    => /\ call.ret.t = "ok"
       /\ SameElements(call.ret.v,
                       Matching(Stored, LAMBDA item :
                                   SatisfiesSearch(item, call.query, call.options)))
       /\ RecentFirst(call.ret.v)


\* C11: interleaved incrementItemViews and updateItem calls on an item all take
\* effect.  Once every suspended call has completed, the stored item is as after the
\* same calls made one after the other: views counts the increments that completed
\* and the location is the one the updates gave it.
InterleavedCallsAllTakeEffect ==
    pending = <<>> =>
        \A k \in DOMAIN done :
            MapHas(items, k) =>
                /\ Get(ItemAt(k), "views") = Num(done[k].incs)
                /\ done[k].data # {} =>
                       Get(ItemAt(k), "location") = PartialLocation["location"]


\* C12: an item a caller obtained from getItem or createItem is a snapshot: no
\* later step of the store changes what the caller holds.
HeldItemIsSnapshot == [][held # NoRef => HeldItem' = HeldItem]_vars


\* The item getItem yields for the id that the createItem call of the step returned.
ReadBack == MapGet(items', call'.ret.v["id"].n)

ItemLists(m) == {GetItemsResult(m, Undefined), SearchItemsResult(m, Str(<<>>), Undefined)}

\* C14: deleteItem(id) returns true exactly when an item was stored under id.  After
\* it getItem(id) finds nothing and getItems and searchItems do not list the item;
\* on a missing id the store is unchanged; every other item, the users and the
\* messages are unchanged in both cases.
DeleteItemRemovesOnlyThat ==
    [][call'.op = "deleteItem" =>
          LET id == call'.id
              was == MapHas(items, id)
          IN /\ call'.ret = Ok(Bool(was))
             /\ MapGet(items', id) = Undefined
             /\ was => \A r \in ItemLists(items') :
                           r.t = "ok" /\ \A i \in 1..Len(r.v) : r.v[i] # MapGet(items, id)
             /\ ~was => items' = items
             /\ \A k \in StoredKeys \ {id} : MapGet(items', k) = MapGet(items, k)
             /\ users' = users
             /\ messages' = messages
             /\ <<userIdCounter', itemIdCounter', messageIdCounter'>>
                    = <<userIdCounter, itemIdCounter, messageIdCounter>>]_vars

\* deleteItem returned true and another item, a user and a message are stored.
DeletedOneOfTwo ==
    /\ call.op = "deleteItem"
    /\ call.ret = Ok(Bool(TRUE))
    /\ Len(items) = 1
    /\ Len(users) > 0
    /\ Len(messages) > 0


MessageAt(k) == MapGet(messages, k)

\* C15: markMessageAsRead(id) on a stored message returns true and leaves it read
\* with its other fields as they were; on a message already read it changes nothing,
\* so a second call gives the state and the result of the first; on a missing id it
\* returns false and changes nothing.  No other message, user or item changes.
MarkMessageAsReadIdempotent ==
    [][call'.op = "markMessageAsRead" =>
          LET id == call'.id
          IN /\ IF MapHas(messages, id)
                THEN /\ call'.ret = Ok(Bool(TRUE))
                     /\ MapGet(messages', id) = With(MessageAt(id), "read", Bool(TRUE))
                     /\ Get(MessageAt(id), "read") = Bool(TRUE) => messages' = messages
                ELSE /\ call'.ret = Ok(Bool(FALSE))
                     /\ messages' = messages
             /\ \A k \in MapKeys(messages) \ {id} : MapGet(messages', k) = MessageAt(k)
             /\ MapKeys(messages') = MapKeys(messages)
             /\ users' = users
             /\ items' = items
             /\ messageIdCounter' = messageIdCounter]_vars

\* markMessageAsRead returned true on one of two messages; the other is still unread.
MarkedOneOfTwo ==
    /\ call.op = "markMessageAsRead"
    /\ call.ret = Ok(Bool(TRUE))
    /\ Get(MessageAt(call.id), "read") = Bool(TRUE)
    /\ \E k \in MapKeys(messages) : Get(MessageAt(k), "read") = Bool(FALSE)

\* C16: the read flag of a message is false right after createMessage, whatever the
\* input contains, and no step takes it from true back to false.
ReadOnlyFalseToTrue ==
    [][/\ \A k \in MapKeys(messages') \ MapKeys(messages) :
              Get(MapGet(messages', k), "read") = Bool(FALSE)
       /\ \A k \in MapKeys(messages) :
              /\ MapHas(messages', k)
              /\ Get(MessageAt(k), "read") = Bool(TRUE) =>
                     Get(MapGet(messages', k), "read") = Bool(TRUE)]_vars

\* A message was just created unread from an input that carries read = true, next
\* to a message that has been marked read.
CreatedUnreadNextToRead ==
    /\ call.op = "createMessage"
    /\ Get(call.data, "read") = Bool(TRUE)
    /\ Get(MessageAt(call.ret.v["id"].n), "read") = Bool(FALSE)
    /\ \E k \in MapKeys(messages) : Get(MessageAt(k), "read") = Bool(TRUE)

\* The message is sent by or to userId.
SentByOrTo(message, userId) ==
    Get(message, "fromUserId") = userId \/ Get(message, "toUserId") = userId

\* C17: getMessages(userId) returns exactly the stored messages sent by or to
\* userId, each once, most recent first.
GetMessagesOfUser ==
    call.op = "getMessages" =>
        /\ call.ret.t = "ok"
        /\ SameElements(call.ret.v,
                        Matching(MapValues(messages), LAMBDA m : SentByOrTo(m, call.userId)))
        /\ RecentFirst(call.ret.v)

\* getMessages returned both stored messages, the one created later first.
GotBothLaterFirst ==
    /\ call.op = "getMessages"
    /\ call.ret.t = "ok"
    /\ Len(call.ret.v) = 2
    /\ call.ret.v[1]["createdAt"].ms > call.ret.v[2]["createdAt"].ms
    /\ call.ret.v[1] = MapValues(messages)[2]


\* No two users of the map m have the same email.
UniqueEmails(m) ==
    \A i, j \in 1..Len(m) : i # j => Get(m[i].val, "email") # Get(m[j].val, "email")

NamesMissingItem ==
    /\ call'.op \in {"GET /api/items/:id", "PATCH /api/items/:id", "DELETE /api/items/:id"}
    /\ ~HasItem(ParseInt(Str(call'.id)))
NamesMissingMessage ==
    /\ call'.op = "PATCH /api/messages/:id/read"
    /\ ~HasMessage(ParseInt(Str(call'.id)))

\* The step answers 404 and leaves users, items, messages and the counters alone.
NotFoundAndUntouched ==
    /\ call'.status = 404
    /\ <<users', items', messages'>> = <<users, items, messages>>
    /\ <<userIdCounter', itemIdCounter', messageIdCounter'>>
           = <<userIdCounter, itemIdCounter, messageIdCounter>>

\* C19, as stated: every GET, PATCH and DELETE /api/items/:id request for an id with
\* no stored item, and every PATCH /api/messages/:id/read request for an id with no
\* stored message, is answered 404 and changes nothing.
MissingAlwaysNotFound ==
    [][(NamesMissingItem \/ NamesMissingMessage) => NotFoundAndUntouched]_vars

\* C19, amended: the same, for the PATCH /api/items/:id requests whose upload the
\* upload middleware lets through; a request whose upload it refuses is answered
\* with an error before the item is looked up, and changes nothing either.
MissingNotFoundPastUpload ==
    [][(NamesMissingItem \/ NamesMissingMessage) =>
          IF "refused" \in DOMAIN call'
          THEN /\ call'.status # 404
               /\ <<users', items', messages'>> = <<users, items, messages>>
               /\ <<userIdCounter', itemIdCounter', messageIdCounter'>>
                      = <<userIdCounter, itemIdCounter, messageIdCounter>>
          ELSE NotFoundAndUntouched]_vars

\* A PATCH with an accepted image for an id that names no item was answered 404
\* while an item and a message are stored.
PatchedMissingItem ==
    /\ call.op = "PATCH /api/items/:id"
    /\ call.status = 404
    /\ "files" \in DOMAIN call
    /\ call.files = Arr(<<Str(<<"f">>)>>)
    /\ ~HasItem(ParseInt(Str(call.id)))
    /\ Len(items) > 0
    /\ Len(messages) > 0


\* The ids createItem returned.
IssuedKeys == {issued.item[i].n : i \in 1..Len(issued.item)}

\* C20: a deleted item stays deleted.  An id that createItem returned and that the
\* map no longer holds was removed by a deleteItem call that returned true; from then
\* on no step stores an item under it again, so every later getItem(id) finds nothing.
DeletedStaysDeleted ==
    [][\A k \in IssuedKeys : ~MapHas(items, k) => ~MapHas(items', k)]_vars


\* The images of an item as a sequence: none when the field is null.
ImagesOf(item) ==
    IF Get(item, "images") = Null THEN <<>> ELSE Get(item, "images").a

\* C21: after a successful PATCH /api/items/:id the images of the item are the
\* images it held before the request, in their order, followed by the paths of the
\* files uploaded in the request in their order, whatever the body contains.
PatchAppendsImages ==
    [][(call'.op = "PATCH /api/items/:id" /\ call'.status = 200) =>
          LET k == ParseInt(Str(call'.id)).n
              after == Get(MapGet(items', k), "images")
          IN /\ after.t = "array"
             /\ after.a = ImagesOf(ItemAt(k)) \o UploadPaths(call'.files)]_vars

\* A request whose body names images of its own uploaded a file for an item that
\* held an image: the item holds the old image, then the new path.
AppendedToStoredImage ==
    /\ call.op = "PATCH /api/items/:id"
    /\ call.status = 200
    /\ call.body = BodyImages
    /\ Len(call.files.a) = 1
    /\ LET images == ImagesOf(ItemAt(ParseInt(Str(call.id)).n))
       IN /\ Len(images) = 2
          /\ images[1] = Str(<<"u">>)
          /\ images[2] = Str(UploadsPrefix \o <<"f">>)

=============================================================================
